---- MODULE Spec2Model ----
(***************************************************************************)
(* Model of the chirp backend's route handlers: the users router (follow,  *)
(* unfollow), the tweets router (create, timeline, like, unlike, retweet,  *)
(* unretweet, delete) and the notifications router (read, read-all), over  *)
(* the three collections they share.                                       *)
(*                                                                         *)
(* Spec runs every handler from request to response in one step (requests  *)
(* served one after the other).  ConcSpec runs the follow and unfollow     *)
(* handlers one store call at a time, so that requests interleave at their *)
(* awaits.                                                                 *)
(***************************************************************************)
EXTENDS Integers, Sequences, FiniteSets, TLC

\* ------------------------------------------------------------------ bounds

\* Tweets ever created in a behaviour (their ids are 1..MaxTweets).
MaxTweets == 3
\* Notifications ever created in a behaviour.
MaxNotifs == 2
\* Requests served in a behaviour.
MaxRequests == 4
\* ConcSpec: requests in flight at the same time.
MaxInFlight == 2

\* ------------------------------------------------------------- identifiers

\* The registered users (registration itself is outside these routers).
Users == {"u1", "u2"}
\* An id that names no user document.
NoUser == "u0"
UserIds == Users \cup {NoUser}
TweetIds == 1..MaxTweets
\* The null reference (replyTo of a top-level tweet, tweet of a follow notification).
Null == 0

\* Longest tweet content accepted.
MaxContent == 280
\* Page size of the timeline query.
TimelineLimit == 50
\* Page sizes of the explore and the search queries.
ExploreLimit == 50
SearchLimit == 50

VARIABLES
    users,          \* User collection: id -> [followers, following]
    tweets,         \* Tweet collection: id -> document, for the stored ids
    nextTweet,      \* id the next created tweet gets
    notifications,  \* Notification collection, in creation order
    nextNotif,      \* id the next created notification gets
    res,            \* the last request and the response it was given
    served,         \* number of requests taken so far
    trip,           \* history: the like, then unlike, the last requests made
    reqs,           \* ConcSpec: the requests in flight, by slot
    storeError      \* ConcSpec: some request ended in its catch block (500)

db == <<users, tweets, nextTweet, notifications, nextNotif>>
vars == <<users, tweets, nextTweet, notifications, nextNotif, res, served, trip,
          reqs, storeError>>

\* ------------------------------------------------------------ array helpers

\* Array.prototype.includes on an array of ids.
Includes(arr, x) == \E i \in 1..Len(arr) : arr[i] = x

\* Array.prototype.push.
Push(arr, x) == Append(arr, x)

\* arr.filter(id => id.toString() !== x.toString()).
FilterOut(arr, x) == SelectSeq(arr, LAMBDA e : e # x)

\* query.limit(n).
Limit(seq, n) == IF Len(seq) <= n THEN seq ELSE SubSeq(seq, 1, n)

\* ------------------------------------------------------------------- store

\* A field a request body does not carry.
Undefined == "undefined"

\* The User documents at registration: empty follow arrays, a name, and the
\* other profile fields empty. A user's username is the user's id.
InitUsers ==
    [u \in Users |->
        [followers |-> <<>>, following |-> <<>>, name |-> u, bio |-> "",
         location |-> "", website |-> "", profileImage |-> ""]]

\* new Tweet({user, content}) with the schema's defaults, replyTo as given.
NewTweet(actor, content, replyTo) ==
    [user |-> actor, content |-> content, likes |-> <<>>, retweets |-> <<>>,
     replyTo |-> replyTo, retweetData |-> Null]

\* The document Notification.create stores: read takes the schema's default.
NewNotification(nid, recipient, sender, type, tweet, message) ==
    [id |-> nid, recipient |-> recipient, sender |-> sender, type |-> type,
     tweet |-> tweet, read |-> FALSE, message |-> message]

\* await Notification.create({...}).
CreateNotification(recipient, sender, type, tweet, message) ==
    /\ nextNotif <= MaxNotifs
    /\ notifications' = Append(notifications,
            NewNotification(nextNotif, recipient, sender, type, tweet, message))
    /\ nextNotif' = nextNotif + 1

\* res.status(status).json(body) for the request (op, actor, id).
Respond(op, actor, id, status, message, body) ==
    res' = [op |-> op, user |-> actor, id |-> id, status |-> status,
            message |-> message, body |-> body]

\* res.status(status).json({ message }) of a request that changed nothing.
Refuse(op, actor, id, status, message) ==
    /\ Respond(op, actor, id, status, message, <<>>)
    /\ UNCHANGED db

\* res.json(body) of a request that changed nothing.
List(op, actor, id, body) ==
    /\ Respond(op, actor, id, 200, "", body)
    /\ UNCHANGED db

\* ------------------------------------------------------------------- protect

\* What a request bears as its credential: no Bearer token, a token jwt.verify
\* rejects, or a token jwt.verify accepts, given as the user id it decodes to.
NoToken == "none"
BadToken == "bad"
Credentials == {NoToken, BadToken} \cup Users \cup {NoUser}

\* !user, after User.findById(decoded.id).
UserMissing(us, cred) == cred \notin DOMAIN us

\* The protect middleware before a handler: the handler runs, with the token's
\* user as req.user, only when the token verifies and names a stored user.
Protect(cred, op, handler) ==
    IF cred = NoToken
    THEN Refuse(op, NoUser, Null, 401, "Not authorized to access this route")
    ELSE IF cred = BadToken
    THEN Refuse(op, NoUser, Null, 401, "Not authorized to access this route")
    ELSE IF UserMissing(users, cred)
    THEN Refuse(op, NoUser, Null, 401, "User not found")
    ELSE handler

\* ------------------------------------------------------------ users router

\* userToFollow.followers.push(req.user._id); await userToFollow.save().
SaveFollower(us, id, actor) ==
    [us EXCEPT ![id].followers = Push(@, actor)]

\* Mutant of SaveFollowing: the second document is never saved.
SaveFollowingDropped(us, actor, id) == us

\* currentUser.following.push(userToFollow._id); await currentUser.save().
SaveFollowing(us, actor, id) ==
    [us EXCEPT ![actor].following = Push(@, id)]

\* userToUnfollow.followers = <the filtered array>; await userToUnfollow.save().
SaveUnfollower(us, id, filtered) ==
    [us EXCEPT ![id].followers = filtered]

\* currentUser.following = <the filtered array>; await currentUser.save().
SaveUnfollowing(us, actor, filtered) ==
    [us EXCEPT ![actor].following = filtered]

\* Mutant of IsSelf: the ObjectId compared with the string without toString().
IsSelfByIdentity(actor, id) == FALSE

\* req.user._id.toString() === req.params.id
IsSelf(actor, id) == actor = id

\* POST /api/users/:id/follow
Follow(actor, id) ==
    IF id \notin DOMAIN users
    THEN Refuse("follow", actor, id, 404, "User not found")
    ELSE IF Includes(users[id].followers, actor)
    THEN Refuse("follow", actor, id, 400, "Already following this user")
    ELSE IF IsSelf(actor, id)
    THEN Refuse("follow", actor, id, 400, "You cannot follow yourself")
    ELSE /\ users' = SaveFollowing(SaveFollower(users, id, actor), actor, id)
         /\ CreateNotification(id, actor, "follow", Null, "started following you")
         /\ Respond("follow", actor, id, 200, "User followed successfully", <<>>)
         /\ UNCHANGED <<tweets, nextTweet>>

\* POST /api/users/:id/unfollow
Unfollow(actor, id) ==
    IF id \notin DOMAIN users
    THEN Refuse("unfollow", actor, id, 404, "User not found")
    ELSE IF ~Includes(users[id].followers, actor)
    THEN Refuse("unfollow", actor, id, 400, "You are not following this user")
    ELSE LET userToUnfollow == SaveUnfollower(users, id,
                                    FilterOut(users[id].followers, actor))
         IN  /\ users' = SaveUnfollowing(userToUnfollow, actor,
                                    FilterOut(userToUnfollow[actor].following, id))
             /\ Respond("unfollow", actor, id, 200, "User unfollowed successfully", <<>>)
             /\ UNCHANGED <<tweets, nextTweet, notifications, nextNotif>>

\* The user a request's token names, NoUser when it names none.
Bearer(cred) == IF cred \in Users THEN cred ELSE NoUser

\* GET /api/users/:username, declared without protect: the isFollowing field is
\* added only when req.user is set, which nothing does on this route.
GetProfile(cred, username) ==
    IF username \notin DOMAIN users
    THEN Refuse("profile", Bearer(cred), Null, 404, "User not found")
    ELSE List("profile", Bearer(cred), Null,
              <<[id |-> username, name |-> users[username].name,
                 bio |-> users[username].bio,
                 followers |-> Len(users[username].followers),
                 following |-> Len(users[username].following),
                 tweetsCount |-> Cardinality({t \in DOMAIN tweets :
                                                tweets[t].user = username})]>>)

\* The bodies of the profile updates: no field, empty name and bio, every field.
ProfileBodies ==
    { [name |-> Undefined, bio |-> Undefined, location |-> Undefined,
       website |-> Undefined, profileImage |-> Undefined],
      [name |-> "", bio |-> "", location |-> Undefined,
       website |-> Undefined, profileImage |-> Undefined],
      [name |-> "x", bio |-> "x", location |-> "x",
       website |-> "x", profileImage |-> "x"] }

\* if (field !== undefined) user.field = field
Assigned(old, new) == IF new # Undefined THEN new ELSE old

\* PUT /api/users/profile: the name is assigned only when it is truthy.
UpdateProfile(actor, body) ==
    /\ users' = [users EXCEPT ![actor] =
                    [@ EXCEPT !.name = IF body.name # Undefined /\ body.name # ""
                                       THEN body.name ELSE @,
                              !.bio = Assigned(@, body.bio),
                              !.location = Assigned(@, body.location),
                              !.website = Assigned(@, body.website),
                              !.profileImage = Assigned(@, body.profileImage)]]
    /\ Respond("updateProfile", actor, Null, 200, "",
               <<[id |-> actor, name |-> users'[actor].name, bio |-> users'[actor].bio,
                  location |-> users'[actor].location,
                  website |-> users'[actor].website,
                  profileImage |-> users'[actor].profileImage]>>)
    /\ UNCHANGED <<tweets, nextTweet, notifications, nextNotif>>

\* Page size of the suggestions query.
SuggestionsLimit == 5

\* The handler of GET /api/users/suggestions: the users that are neither the
\* requester nor followed by the requester, five at most.
Suggestions(actor) ==
    LET excluded == Push(users[actor].following, actor)
        found == SelectSeq(<<"u1", "u2">>, LAMBDA u : ~Includes(excluded, u))
    IN  List("suggestions", actor, Null,
             [i \in 1..Len(Limit(found, SuggestionsLimit)) |->
                 [id |-> Limit(found, SuggestionsLimit)[i]]])

\* The GET routes of the users router that take a path of one segment, in the
\* order of their registration; a request goes to the first whose path matches.
UsersGetRoutes == <<":username", "suggestions">>

\* Whether a route's path matches a segment: a parameter matches any.
PathMatches(pattern, segment) == pattern = ":username" \/ pattern = segment

\* GET /api/users/<segment>
UsersGet(cred, segment) ==
    LET first == CHOOSE i \in 1..Len(UsersGetRoutes) :
                    /\ PathMatches(UsersGetRoutes[i], segment)
                    /\ \A j \in 1..(i - 1) : ~PathMatches(UsersGetRoutes[j], segment)
    IN  IF UsersGetRoutes[first] = ":username"
        THEN GetProfile(cred, segment)
        ELSE Protect(cred, "suggestions", Suggestions(cred))

\* ----------------------------------------------------------- tweets router

\* String.prototype.trim, on a content given as its sequence of characters.
RECURSIVE TrimStart(_)
TrimStart(s) == IF s # <<>> /\ Head(s) = " " THEN TrimStart(Tail(s)) ELSE s

RECURSIVE TrimEnd(_)
TrimEnd(s) ==
    IF s # <<>> /\ s[Len(s)] = " " THEN TrimEnd(SubSeq(s, 1, Len(s) - 1)) ELSE s

Trim(s) == TrimEnd(TrimStart(s))

\* !content || content.trim() === ''
ContentMissing(content) == content = <<>> \/ Trim(content) = <<>>

\* Mutant of ContentTooLong: the length is taken after the trim.
ContentTooLongTrimmed(content) == Len(Trim(content)) > MaxContent

\* Mutant of ContentTooLong: the limit itself is refused.
ContentTooLongAtLimit(content) == Len(content) >= MaxContent

\* content.length > 280
ContentTooLong(content) == Len(content) > MaxContent

\* Mutant of CountReplies: the placeholder of the listings is never replaced.
CountRepliesPlaceholder(ts, id) == 0

\* Tweet.countDocuments({ replyTo: id }).
CountReplies(ts, id) == Cardinality({r \in DOMAIN ts : ts[r].replyTo = id})

\* The ids of a set of stored tweets under .sort({ createdAt: -1 }): tweets are
\* stored in the order of their ids, all of them below nextTweet.
SortNewestFirst(ids) ==
    SelectSeq([i \in 1..(nextTweet - 1) |-> nextTweet - i], LAMBDA t : t \in ids)

\* One entry of a listing, with the viewer's flags and the reply count.
FormatTweet(ts, id, viewer) ==
    [id |-> id, content |-> ts[id].content, user |-> ts[id].user,
     likeCount |-> Len(ts[id].likes), retweetCount |-> Len(ts[id].retweets),
     replyCount |-> CountReplies(ts, id),
     isLiked |-> Includes(ts[id].likes, viewer),
     isRetweeted |-> Includes(ts[id].retweets, viewer)]

\* Mutant of ReplyToOther: a reply to one's own tweet is notified too.
ReplyToOtherAlways(ts, replyTo, actor) == TRUE

\* Mutant of ReplyToOther: the author check inverted.
ReplyToOtherInverted(ts, replyTo, actor) == ts[replyTo].user = actor

\* originalTweet.user.toString() !== req.user._id.toString()
ReplyToOther(ts, replyTo, actor) == ts[replyTo].user # actor

\* POST /api/tweets
CreateTweet(actor, content, replyTo) ==
    IF ContentMissing(content)
    THEN Refuse("createTweet", actor, replyTo, 400, "Tweet content is required")
    ELSE IF ContentTooLong(content)
    THEN Refuse("createTweet", actor, replyTo, 400, "Tweet cannot exceed 280 characters")
    ELSE IF replyTo # Null /\ replyTo \notin DOMAIN tweets
    THEN Refuse("createTweet", actor, replyTo, 404, "Original tweet not found")
    ELSE /\ nextTweet <= MaxTweets
         /\ IF replyTo # Null /\ ReplyToOther(tweets, replyTo, actor)
            THEN CreateNotification(tweets[replyTo].user, actor, "reply", nextTweet,
                                    "replied to your chirp")
            ELSE UNCHANGED <<notifications, nextNotif>>
         /\ tweets' = (nextTweet :> NewTweet(actor, content, replyTo)) @@ tweets
         /\ nextTweet' = nextTweet + 1
         /\ Respond("createTweet", actor, replyTo, 201, "",
                    <<[id |-> nextTweet, content |-> content, user |-> actor,
                       likeCount |-> 0, retweetCount |-> 0, replyCount |-> 0,
                       isLiked |-> FALSE, isRetweeted |-> FALSE]>>)
         /\ UNCHANGED users

\* Mutant of TimelineStored: the loaded user is saved after the push.
TimelineStoredSaved(us, actor) == [us EXCEPT ![actor].following = Push(@, actor)]

\* The User collection after a timeline request: following.push(req.user._id)
\* changes the loaded copy, which is never saved.
TimelineStored(us, actor) == us

\* Mutant of InTimeline: the replyTo condition left out of the filter.
InTimelineWithReplies(ts, t, following) == Includes(following, ts[t].user)

\* The filter { user: { $in: following }, replyTo: null }.
InTimeline(ts, t, following) ==
    Includes(following, ts[t].user) /\ ts[t].replyTo = Null

\* GET /api/tweets/timeline
Timeline(actor) ==
    LET following == Push(users[actor].following, actor)
        found == {t \in DOMAIN tweets : InTimeline(tweets, t, following)}
        page == Limit(SortNewestFirst(found), TimelineLimit)
    IN  /\ Respond("timeline", actor, Null, 200, "",
                   [i \in 1..Len(page) |-> FormatTweet(tweets, page[i], actor)])
        /\ users' = TimelineStored(users, actor)
        /\ UNCHANGED <<tweets, nextTweet, notifications, nextNotif>>

\* tweet.likes.push(req.user._id); await tweet.save().
SaveLike(ts, id, actor) == [ts EXCEPT ![id].likes = Push(@, actor)]

\* Mutant of SaveUnlike: the filter's test inverted.
SaveUnlikeInverted(ts, id, actor) ==
    [ts EXCEPT ![id].likes = SelectSeq(@, LAMBDA e : e = actor)]

\* tweet.likes = tweet.likes.filter(...); await tweet.save().
SaveUnlike(ts, id, actor) == [ts EXCEPT ![id].likes = FilterOut(@, actor)]

\* Mutant of SaveRetweet: the requester is pushed onto the likes.
SaveRetweetOntoLikes(ts, id, actor) ==
    [ts EXCEPT ![id].likes = Push(@, actor)]

\* tweet.retweets.push(req.user._id); await tweet.save().
SaveRetweet(ts, id, actor) == [ts EXCEPT ![id].retweets = Push(@, actor)]

\* tweet.retweets = tweet.retweets.filter(...); await tweet.save().
SaveUnretweet(ts, id, actor) == [ts EXCEPT ![id].retweets = FilterOut(@, actor)]

\* Mutant of NotOwnTweet: the author is notified of their own likes too.
NotOwnTweetAlways(ts, id, actor) == TRUE

\* tweet.user.toString() !== req.user._id.toString(), before a notification.
NotOwnTweet(ts, id, actor) == ts[id].user # actor

\* Mutant of HasLiked: the retweets array is tested instead.
HasLikedByRetweets(ts, id, actor) == Includes(ts[id].retweets, actor)

\* tweet.likes.includes(req.user._id)
HasLiked(ts, id, actor) == Includes(ts[id].likes, actor)

\* tweet.retweets.includes(req.user._id)
HasRetweeted(ts, id, actor) == Includes(ts[id].retweets, actor)

\* POST /api/tweets/:id/like
Like(actor, id) ==
    IF id \notin DOMAIN tweets
    THEN Refuse("like", actor, id, 404, "Tweet not found")
    ELSE IF HasLiked(tweets, id, actor)
    THEN Refuse("like", actor, id, 400, "Tweet already liked")
    ELSE /\ tweets' = SaveLike(tweets, id, actor)
         /\ IF NotOwnTweet(tweets, id, actor)
            THEN CreateNotification(tweets[id].user, actor, "like", id, "liked your chirp")
            ELSE UNCHANGED <<notifications, nextNotif>>
         /\ Respond("like", actor, id, 200, "Tweet liked successfully", <<>>)
         /\ UNCHANGED <<users, nextTweet>>

\* POST /api/tweets/:id/unlike
Unlike(actor, id) ==
    IF id \notin DOMAIN tweets
    THEN Refuse("unlike", actor, id, 404, "Tweet not found")
    ELSE IF ~HasLiked(tweets, id, actor)
    THEN Refuse("unlike", actor, id, 400, "Tweet not liked")
    ELSE /\ tweets' = SaveUnlike(tweets, id, actor)
         /\ Respond("unlike", actor, id, 200, "Tweet unliked successfully", <<>>)
         /\ UNCHANGED <<users, nextTweet, notifications, nextNotif>>

\* POST /api/tweets/:id/retweet
Retweet(actor, id) ==
    IF id \notin DOMAIN tweets
    THEN Refuse("retweet", actor, id, 404, "Tweet not found")
    ELSE IF HasRetweeted(tweets, id, actor)
    THEN Refuse("retweet", actor, id, 400, "Tweet already retweeted")
    ELSE /\ tweets' = SaveRetweet(tweets, id, actor)
         /\ IF NotOwnTweet(tweets, id, actor)
            THEN CreateNotification(tweets[id].user, actor, "retweet", id,
                                    "retweeted your chirp")
            ELSE UNCHANGED <<notifications, nextNotif>>
         /\ Respond("retweet", actor, id, 200, "Tweet retweeted successfully", <<>>)
         /\ UNCHANGED <<users, nextTweet>>

\* POST /api/tweets/:id/unretweet
Unretweet(actor, id) ==
    IF id \notin DOMAIN tweets
    THEN Refuse("unretweet", actor, id, 404, "Tweet not found")
    ELSE IF ~HasRetweeted(tweets, id, actor)
    THEN Refuse("unretweet", actor, id, 400, "Tweet not retweeted")
    ELSE /\ tweets' = SaveUnretweet(tweets, id, actor)
         /\ Respond("unretweet", actor, id, 200, "Tweet unretweeted successfully", <<>>)
         /\ UNCHANGED <<users, nextTweet, notifications, nextNotif>>

\* await tweet.deleteOne().
DeleteOne(ts, id) == [t \in DOMAIN ts \ {id} |-> ts[t]]

\* await Tweet.deleteMany({ replyTo: id }).
DeleteReplies(ts, id) == [t \in {x \in DOMAIN ts : ts[x].replyTo # id} |-> ts[t]]

\* Mutant of DeleteNotifications: the notifications are left in place.
DeleteNotificationsSkipped(ns, id) == ns

\* Mutant of DeleteNotifications: the filter left out of deleteMany.
DeleteNotificationsAll(ns, id) == <<>>

\* await Notification.deleteMany({ tweet: id }).
DeleteNotifications(ns, id) == SelectSeq(ns, LAMBDA n : n.tweet # id)

\* Mutant of NotOwner: the ownership check always passes.
NotOwnerNever(ts, id, actor) == FALSE

\* tweet.user.toString() !== req.user._id.toString(), before the delete.
NotOwner(ts, id, actor) == ts[id].user # actor

\* DELETE /api/tweets/:id
DeleteTweet(actor, id) ==
    IF id \notin DOMAIN tweets
    THEN Refuse("deleteTweet", actor, id, 404, "Tweet not found")
    ELSE IF NotOwner(tweets, id, actor)
    THEN Refuse("deleteTweet", actor, id, 401, "User not authorized")
    ELSE /\ tweets' = DeleteReplies(DeleteOne(tweets, id), id)
         /\ notifications' = DeleteNotifications(notifications, id)
         /\ Respond("deleteTweet", actor, id, 200, "Tweet deleted successfully", <<>>)
         /\ UNCHANGED <<users, nextTweet, nextNotif>>

\* req.user in the handler of a route declared without protect, for a request
\* bearing this user's token (NoUser: no token): protect is the only code that
\* assigns req.user, and it does not run on these routes.
PublicUser(bearer) == NoUser

\* One entry of a public listing: req.user ? likes.includes(req.user._id) : false.
FormatPublic(ts, id, reqUser) ==
    [id |-> id, content |-> ts[id].content, user |-> ts[id].user,
     likeCount |-> Len(ts[id].likes), retweetCount |-> Len(ts[id].retweets),
     replyCount |-> CountReplies(ts, id),
     isLiked |-> IF reqUser # NoUser THEN Includes(ts[id].likes, reqUser) ELSE FALSE,
     isRetweeted |-> IF reqUser # NoUser THEN Includes(ts[id].retweets, reqUser)
                     ELSE FALSE]

\* Mutant of InExplore: the explore query with an empty filter.
InExploreUnfiltered(ts, t) == TRUE

\* The filter { replyTo: null }.
InExplore(ts, t) == ts[t].replyTo = Null

\* GET /api/tweets/explore
Explore(bearer) ==
    LET found == {t \in DOMAIN tweets : InExplore(tweets, t)}
        page == Limit(SortNewestFirst(found), ExploreLimit)
    IN  List("explore", bearer, Null,
             [i \in 1..Len(page) |-> FormatPublic(tweets, page[i], PublicUser(bearer))])

\* GET /api/tweets/:id: the populated replyTo is null once the parent is gone.
GetTweet(bearer, id) ==
    IF id \notin DOMAIN tweets
    THEN Refuse("getTweet", bearer, id, 404, "Tweet not found")
    ELSE LET f == FormatPublic(tweets, id, PublicUser(bearer)) IN
         List("getTweet", bearer, id,
              <<[id |-> f.id, content |-> f.content, user |-> f.user,
                   likeCount |-> f.likeCount, retweetCount |-> f.retweetCount,
                   replyCount |-> f.replyCount, isLiked |-> f.isLiked,
                   isRetweeted |-> f.isRetweeted,
                   replyTo |-> IF tweets[id].replyTo \in DOMAIN tweets
                               THEN tweets[id].replyTo ELSE Null]>>)

\* GET /api/tweets/:id/replies: every reply, newest first, with no limit.
Replies(bearer, id) ==
    LET found == {t \in DOMAIN tweets : tweets[t].replyTo = id}
        page == SortNewestFirst(found)
    IN  List("replies", bearer, id,
             [i \in 1..Len(page) |-> FormatPublic(tweets, page[i], PublicUser(bearer))])

\* ------------------------------------------------------------ search router

\* The 'i' option of the $regex filter, on the characters requests use.
Lower(c) == IF c = "A" THEN "a" ELSE IF c = "B" THEN "b" ELSE c

\* content: { $regex: q, $options: 'i' } for a q of plain letters: q occurs in
\* the content, case apart.
Matches(content, q) ==
    \E i \in 1..(Len(content) - Len(q) + 1) :
        \A j \in 1..Len(q) : Lower(content[i + j - 1]) = Lower(q[j])

\* The q parameters: none, and letters the stored contents have and lack.
Queries == { <<>>, <<"A">>, <<"b">> }

\* GET /api/search
Search(bearer, q) ==
    IF q = <<>>
    THEN Refuse("search", bearer, Null, 400, "Search query is required")
    ELSE LET found == {t \in DOMAIN tweets : Matches(tweets[t].content, q)}
             page == Limit(SortNewestFirst(found), SearchLimit)
         IN  List("search", bearer, Null,
                  [i \in 1..Len(page) |->
                        FormatPublic(tweets, page[i], PublicUser(bearer))])

\* ---------------------------------------------------- notifications router

NotifIds == 1..MaxNotifs

\* Notification.findById(id): the position of the document, 0 when there is none.
FindNotification(ns, nid) ==
    IF \E i \in 1..Len(ns) : ns[i].id = nid
    THEN CHOOSE i \in 1..Len(ns) : ns[i].id = nid
    ELSE 0

\* Page size of the notifications query.
NotificationsLimit == 50

\* GET /api/notifications: the requester's notifications, newest first; the
\* populated tweet is null once the tweet is gone.
ListNotifications(actor) ==
    LET mine == SelectSeq(notifications, LAMBDA n : n.recipient = actor)
        page == Limit([i \in 1..Len(mine) |-> mine[Len(mine) + 1 - i]],
                      NotificationsLimit)
    IN  List("listNotifications", actor, Null,
             [i \in 1..Len(page) |->
                 [page[i] EXCEPT !.tweet = IF @ \in DOMAIN tweets THEN @ ELSE Null]])

\* POST /api/notifications/:id/read
MarkRead(actor, nid) ==
    LET i == FindNotification(notifications, nid) IN
    IF i = 0
    THEN Refuse("markRead", actor, nid, 404, "Notification not found")
    ELSE IF notifications[i].recipient # actor
    THEN Refuse("markRead", actor, nid, 401, "Not authorized")
    ELSE /\ notifications' = [notifications EXCEPT ![i].read = TRUE]
         /\ Respond("markRead", actor, nid, 200, "Notification marked as read", <<>>)
         /\ UNCHANGED <<users, tweets, nextTweet, nextNotif>>

\* Mutant of UnreadOf: the recipient left out of the filter.
UnreadOfAnyone(n, actor) == n.read = FALSE

\* The filter { recipient: req.user._id, read: false } of updateMany.
UnreadOf(n, actor) == n.recipient = actor /\ n.read = FALSE

\* POST /api/notifications/read-all
MarkAllRead(actor) ==
    /\ notifications' =
          [i \in 1..Len(notifications) |->
              IF UnreadOf(notifications[i], actor)
              THEN [notifications[i] EXCEPT !.read = TRUE]
              ELSE notifications[i]]
    /\ Respond("markAllRead", actor, Null, 200, "All notifications marked as read", <<>>)
    /\ UNCHANGED <<users, tweets, nextTweet, nextNotif>>

\* ------------------------------------------------------------- the program

\* One character repeated n times.
Rep(c, n) == [i \in 1..n |-> c]

\* The request bodies' contents: none, blank, and around the length limit.
Contents ==
    { <<>>, <<" ">>, Rep("a", MaxContent), Rep("a", MaxContent + 1),
      <<" ">> \o Rep("a", MaxContent) }

Slots == 1..MaxInFlight

\* A slot with no request in it.
Idle == [op |-> "none", user |-> NoUser, id |-> NoUser, pc |-> "idle",
         arr |-> <<>>, fresh |-> TRUE, modified |-> FALSE]

\* No request has been served.
NoResponse ==
    [op |-> "none", user |-> NoUser, id |-> Null, status |-> 0,
     message |-> "", body |-> <<>>]

\* History of the last requests: a successful like records the tweet's arrays as
\* they were before it, and a successful unlike of the same tweet by the same
\* user right after it keeps the record; any other request clears it.
NoTrip == [stage |-> "none", tweet |-> Null, user |-> NoUser,
           likes |-> <<>>, retweets |-> <<>>]

Record ==
    trip' = IF res'.op = "like" /\ res'.status = 200
            THEN [stage |-> "liked", tweet |-> res'.id, user |-> res'.user,
                  likes |-> tweets[res'.id].likes,
                  retweets |-> tweets[res'.id].retweets]
            ELSE IF /\ res'.op = "unlike" /\ res'.status = 200
                    /\ trip.stage = "liked"
                    /\ trip.tweet = res'.id /\ trip.user = res'.user
            THEN [trip EXCEPT !.stage = "unliked"]
            ELSE NoTrip

Init ==
    /\ users = InitUsers
    /\ tweets = <<>>
    /\ nextTweet = 1
    /\ notifications = <<>>
    /\ nextNotif = 1
    /\ res = NoResponse
    /\ served = 0
    /\ trip = NoTrip
    /\ reqs = [s \in Slots |-> Idle]
    /\ storeError = FALSE

\* A request taken from a budget and served from start to response.
ServeWithin(budget, handler) ==
    /\ served < budget
    /\ served' = served + 1
    /\ handler
    /\ Record
    /\ UNCHANGED <<reqs, storeError>>

Serve(handler) == ServeWithin(MaxRequests, handler)

\* A POST /api/tweets request with this body, served by this user.
CreateRequest(actor, content, replyTo) == Serve(CreateTweet(actor, content, replyTo))

\* Requests served one at a time; protect has put an existing user in req.user.
Next ==
    \/ \E actor \in Users, id \in UserIds : Serve(Follow(actor, id))
    \/ \E actor \in Users, id \in UserIds : Serve(Unfollow(actor, id))
    \/ \E actor \in Users, content \in Contents, replyTo \in {Null} \cup TweetIds :
          CreateRequest(actor, content, replyTo)
    \/ \E actor \in Users : Serve(Timeline(actor))
    \/ \E actor \in Users, id \in TweetIds : Serve(Like(actor, id))
    \/ \E actor \in Users, id \in TweetIds : Serve(Unlike(actor, id))
    \/ \E actor \in Users, id \in TweetIds : Serve(Retweet(actor, id))
    \/ \E actor \in Users, id \in TweetIds : Serve(Unretweet(actor, id))
    \/ \E actor \in Users, id \in TweetIds : Serve(DeleteTweet(actor, id))
    \/ \E actor \in Users, nid \in NotifIds : Serve(MarkRead(actor, nid))
    \/ \E actor \in Users : Serve(MarkAllRead(actor))

Spec == Init /\ [][Next]_vars

\* ------------------------------------------- the listings, on a filled store

\* How far past a page's size the filled stores go.
FeedOver == 1
\* How many requests are served on them.
FeedRequests == 3

\* The numbers of top-level tweets the store holds at the start: none, and more
\* than a page.
Populations == {0} \cup ((TimelineLimit + 1)..(TimelineLimit + FeedOver))

\* A store after n top-level tweets, posted by the two users in turn, and one
\* reply of u2 to the first of them.
StoredTweets(n) ==
    [i \in 1..(IF n = 0 THEN 0 ELSE n + 1) |->
        IF i = 2 THEN NewTweet("u2", <<"a">>, 1)
        ELSE NewTweet(IF i % 2 = 1 THEN "u1" ELSE "u2", <<"a">>, Null)]

FeedInit ==
    /\ users = InitUsers
    /\ \E n \in Populations :
          /\ tweets = StoredTweets(n)
          /\ nextTweet = Len(StoredTweets(n)) + 1
    /\ notifications = <<>>
    /\ nextNotif = 1
    /\ res = NoResponse
    /\ served = 0
    /\ trip = NoTrip
    /\ reqs = [s \in Slots |-> Idle]
    /\ storeError = FALSE

\* A request to a listing or to what a listing shows, within the listings'
\* budget.
FeedServe(handler) == ServeWithin(FeedRequests, handler)

\* The listings, public ones with or without a user's token, and the requests
\* that change what they show.
FeedNext ==
    \/ \E actor \in Users, id \in UserIds : FeedServe(Follow(actor, id))
    \/ \E actor \in Users, id \in UserIds : FeedServe(Unfollow(actor, id))
    \/ \E actor \in Users, content \in Contents, replyTo \in {Null} \cup TweetIds :
          FeedServe(CreateTweet(actor, content, replyTo))
    \/ \E actor \in Users : FeedServe(Timeline(actor))
    \/ \E actor \in Users, id \in TweetIds : FeedServe(Like(actor, id))
    \/ \E actor \in Users, id \in TweetIds : FeedServe(Retweet(actor, id))
    \/ \E actor \in Users, id \in TweetIds : FeedServe(DeleteTweet(actor, id))
    \/ \E bearer \in Users \cup {NoUser} : FeedServe(Explore(bearer))
    \/ \E bearer \in Users \cup {NoUser}, id \in TweetIds :
          FeedServe(GetTweet(bearer, id))
    \/ \E bearer \in Users \cup {NoUser}, id \in TweetIds :
          FeedServe(Replies(bearer, id))
    \/ \E bearer \in Users \cup {NoUser}, q \in Queries :
          FeedServe(Search(bearer, q))

FeedSpec == FeedInit /\ [][FeedNext]_vars

\* ------------------------------------- the protected routes, with any credential

\* How many requests are served with any credential.
AuthRequests == 3

\* The actions declared with protect.
ProtectedOps ==
    {"follow", "unfollow", "updateProfile", "suggestions", "createTweet",
     "timeline", "like", "unlike", "retweet", "unretweet", "deleteTweet",
     "listNotifications", "markRead", "markAllRead"}

\* What a request to an action carries besides its credential.
Args(op) ==
    CASE op \in {"follow", "unfollow"} -> UserIds
      [] op \in {"like", "unlike", "retweet", "unretweet", "deleteTweet"} -> TweetIds
      [] op = "markRead" -> NotifIds
      [] op = "createTweet" -> Contents \X ({Null} \cup TweetIds)
      [] op = "updateProfile" -> ProfileBodies
      [] OTHER -> {Null}

\* A request to a protected action, as the routers hand it on.
Request(cred, op, arg) ==
    CASE op = "follow" -> Protect(cred, op, Follow(cred, arg))
      [] op = "unfollow" -> Protect(cred, op, Unfollow(cred, arg))
      [] op = "updateProfile" -> Protect(cred, op, UpdateProfile(cred, arg))
      [] op = "suggestions" -> UsersGet(cred, "suggestions")
      [] op = "createTweet" -> Protect(cred, op, CreateTweet(cred, arg[1], arg[2]))
      [] op = "timeline" -> Protect(cred, op, Timeline(cred))
      [] op = "like" -> Protect(cred, op, Like(cred, arg))
      [] op = "unlike" -> Protect(cred, op, Unlike(cred, arg))
      [] op = "retweet" -> Protect(cred, op, Retweet(cred, arg))
      [] op = "unretweet" -> Protect(cred, op, Unretweet(cred, arg))
      [] op = "deleteTweet" -> Protect(cred, op, DeleteTweet(cred, arg))
      [] op = "listNotifications" -> Protect(cred, op, ListNotifications(cred))
      [] op = "markRead" -> Protect(cred, op, MarkRead(cred, arg))
      [] op = "markAllRead" -> Protect(cred, op, MarkAllRead(cred))

AuthServe(handler) == ServeWithin(AuthRequests, handler)

AuthNext ==
    \/ \E cred \in Credentials, arg \in Args("follow") :
          AuthServe(Request(cred, "follow", arg))
    \/ \E cred \in Credentials, arg \in Args("unfollow") :
          AuthServe(Request(cred, "unfollow", arg))
    \/ \E cred \in Credentials, arg \in Args("updateProfile") :
          AuthServe(Request(cred, "updateProfile", arg))
    \/ \E cred \in Credentials, arg \in Args("suggestions") :
          AuthServe(Request(cred, "suggestions", arg))
    \/ \E cred \in Credentials, arg \in Args("createTweet") :
          AuthServe(Request(cred, "createTweet", arg))
    \/ \E cred \in Credentials, arg \in Args("timeline") :
          AuthServe(Request(cred, "timeline", arg))
    \/ \E cred \in Credentials, arg \in Args("like") :
          AuthServe(Request(cred, "like", arg))
    \/ \E cred \in Credentials, arg \in Args("unlike") :
          AuthServe(Request(cred, "unlike", arg))
    \/ \E cred \in Credentials, arg \in Args("retweet") :
          AuthServe(Request(cred, "retweet", arg))
    \/ \E cred \in Credentials, arg \in Args("unretweet") :
          AuthServe(Request(cred, "unretweet", arg))
    \/ \E cred \in Credentials, arg \in Args("deleteTweet") :
          AuthServe(Request(cred, "deleteTweet", arg))
    \/ \E cred \in Credentials, arg \in Args("listNotifications") :
          AuthServe(Request(cred, "listNotifications", arg))
    \/ \E cred \in Credentials, arg \in Args("markRead") :
          AuthServe(Request(cred, "markRead", arg))
    \/ \E cred \in Credentials, arg \in Args("markAllRead") :
          AuthServe(Request(cred, "markAllRead", arg))

AuthSpec == Init /\ [][AuthNext]_vars

\* -------------------------------- follow and unfollow, one store call at a time

\* The user document a request has loaded and not yet saved.
Holds(r) ==
    IF r.pc = "saveTarget" THEN r.id
    ELSE IF r.pc = "saveCurrent" THEN r.user
    ELSE NoUser

\* save() increments the version key of users[id]: the copies of that document
\* other requests have loaded no longer carry the stored version.
Outdate(rs, self, id) ==
    [s \in Slots |->
        IF s # self /\ Holds(rs[s]) = id THEN [rs[s] EXCEPT !.fresh = FALSE] ELSE rs[s]]

\* The slot an arriving request takes.
FreeSlot(s) == reqs[s].pc = "idle" /\ \A o \in Slots : o < s => reqs[o].pc # "idle"

\* A request arrives.
Arrive == served < MaxRequests /\ served' = served + 1

\* A request answers before its first write.
Answer(op, actor, id, status, message) ==
    /\ Refuse(op, actor, id, status, message)
    /\ UNCHANGED <<trip, reqs, storeError>>

\* A request in flight answers: try's res.json, or catch's res.status(500).json.
Finish(s, status, message) ==
    /\ Respond(reqs[s].op, reqs[s].user, reqs[s].id, status, message, <<>>)
    /\ storeError' = (storeError \/ status = 500)

\* Follow requests in flight: each has its notification still to create.
FollowsInFlight == Cardinality({s \in Slots : reqs[s].op = "follow"})

\* follow: const userToFollow = await User.findById(req.params.id), and the checks.
ConcFollowFind(s, actor, id) ==
    /\ FreeSlot(s)
    /\ Arrive
    /\ IF id \notin DOMAIN users
       THEN Answer("follow", actor, id, 404, "User not found")
       ELSE IF Includes(users[id].followers, actor)
       THEN Answer("follow", actor, id, 400, "Already following this user")
       ELSE IF IsSelf(actor, id)
       THEN Answer("follow", actor, id, 400, "You cannot follow yourself")
       ELSE /\ nextNotif + FollowsInFlight <= MaxNotifs
            /\ reqs' = [reqs EXCEPT ![s] =
                   [op |-> "follow", user |-> actor, id |-> id, pc |-> "saveTarget",
                    arr |-> <<>>, fresh |-> TRUE, modified |-> TRUE]]
            /\ UNCHANGED <<db, res, trip, storeError>>

\* follow: userToFollow.followers.push(req.user._id); await userToFollow.save().
ConcFollowSaveTarget(s) ==
    /\ reqs[s].op = "follow" /\ reqs[s].pc = "saveTarget"
    /\ users' = SaveFollower(users, reqs[s].id, reqs[s].user)
    /\ reqs' = Outdate([reqs EXCEPT ![s].pc = "findCurrent"], s, reqs[s].id)
    /\ UNCHANGED <<tweets, nextTweet, notifications, nextNotif, res, served, trip, storeError>>

\* follow: const currentUser = await User.findById(req.user._id).
ConcFollowFindCurrent(s) ==
    /\ reqs[s].op = "follow" /\ reqs[s].pc = "findCurrent"
    /\ reqs' = [reqs EXCEPT ![s].pc = "saveCurrent"]
    /\ UNCHANGED <<db, res, served, trip, storeError>>

\* follow: currentUser.following.push(userToFollow._id); await currentUser.save().
ConcFollowSaveCurrent(s) ==
    /\ reqs[s].op = "follow" /\ reqs[s].pc = "saveCurrent"
    /\ users' = SaveFollowing(users, reqs[s].user, reqs[s].id)
    /\ reqs' = Outdate([reqs EXCEPT ![s].pc = "notify"], s, reqs[s].user)
    /\ UNCHANGED <<tweets, nextTweet, notifications, nextNotif, res, served, trip, storeError>>

\* follow: await Notification.create({...}); res.json(...).
ConcFollowNotify(s) ==
    /\ reqs[s].op = "follow" /\ reqs[s].pc = "notify"
    /\ CreateNotification(reqs[s].id, reqs[s].user, "follow", Null, "started following you")
    /\ Finish(s, 200, "User followed successfully")
    /\ reqs' = [reqs EXCEPT ![s] = Idle]
    /\ UNCHANGED <<users, tweets, nextTweet, served, trip>>

\* unfollow: const userToUnfollow = await User.findById(req.params.id), the checks,
\* and the filter of the loaded followers.
ConcUnfollowFind(s, actor, id) ==
    /\ FreeSlot(s)
    /\ Arrive
    /\ IF id \notin DOMAIN users
       THEN Answer("unfollow", actor, id, 404, "User not found")
       ELSE IF ~Includes(users[id].followers, actor)
       THEN Answer("unfollow", actor, id, 400, "You are not following this user")
       ELSE /\ reqs' = [reqs EXCEPT ![s] =
                   [op |-> "unfollow", user |-> actor, id |-> id, pc |-> "saveTarget",
                    arr |-> FilterOut(users[id].followers, actor),
                    fresh |-> TRUE, modified |-> TRUE]]
            /\ UNCHANGED <<db, res, trip, storeError>>

\* unfollow: await userToUnfollow.save(). The array was assigned, so the update
\* is conditional on the version loaded; a stale version throws into the catch.
ConcUnfollowSaveTarget(s) ==
    /\ reqs[s].op = "unfollow" /\ reqs[s].pc = "saveTarget"
    /\ IF ~reqs[s].fresh
       THEN /\ Finish(s, 500, "Server error")
            /\ reqs' = [reqs EXCEPT ![s] = Idle]
            /\ UNCHANGED users
       ELSE /\ users' = SaveUnfollower(users, reqs[s].id, reqs[s].arr)
            /\ reqs' = Outdate([reqs EXCEPT ![s].pc = "findCurrent"], s, reqs[s].id)
            /\ UNCHANGED <<res, storeError>>
    /\ UNCHANGED <<tweets, nextTweet, notifications, nextNotif, served, trip>>

\* unfollow: const currentUser = await User.findById(req.user._id), and the
\* filter of the loaded following; an assignment of an equal array modifies nothing.
ConcUnfollowFindCurrent(s) ==
    /\ reqs[s].op = "unfollow" /\ reqs[s].pc = "findCurrent"
    /\ LET filtered == FilterOut(users[reqs[s].user].following, reqs[s].id)
       IN  reqs' = [reqs EXCEPT ![s].pc = "saveCurrent", ![s].arr = filtered,
                                ![s].fresh = TRUE,
                                ![s].modified = (filtered # users[reqs[s].user].following)]
    /\ UNCHANGED <<db, res, served, trip, storeError>>

\* unfollow: await currentUser.save(); res.json(...).
ConcUnfollowSaveCurrent(s) ==
    /\ reqs[s].op = "unfollow" /\ reqs[s].pc = "saveCurrent"
    /\ IF ~reqs[s].modified
       THEN /\ Finish(s, 200, "User unfollowed successfully")
            /\ reqs' = [reqs EXCEPT ![s] = Idle]
            /\ UNCHANGED users
       ELSE IF ~reqs[s].fresh
       THEN /\ Finish(s, 500, "Server error")
            /\ reqs' = [reqs EXCEPT ![s] = Idle]
            /\ UNCHANGED users
       ELSE /\ users' = SaveUnfollowing(users, reqs[s].user, reqs[s].arr)
            /\ Finish(s, 200, "User unfollowed successfully")
            /\ reqs' = Outdate([reqs EXCEPT ![s] = Idle], s, reqs[s].user)
    /\ UNCHANGED <<tweets, nextTweet, notifications, nextNotif, served, trip>>

\* Follow and unfollow requests interleaved at their awaits.
ConcNext ==
    \/ \E s \in Slots, actor \in Users, id \in UserIds : ConcFollowFind(s, actor, id)
    \/ \E s \in Slots : ConcFollowSaveTarget(s)
    \/ \E s \in Slots : ConcFollowFindCurrent(s)
    \/ \E s \in Slots : ConcFollowSaveCurrent(s)
    \/ \E s \in Slots : ConcFollowNotify(s)
    \/ \E s \in Slots, actor \in Users, id \in UserIds : ConcUnfollowFind(s, actor, id)
    \/ \E s \in Slots : ConcUnfollowSaveTarget(s)
    \/ \E s \in Slots : ConcUnfollowFindCurrent(s)
    \/ \E s \in Slots : ConcUnfollowSaveCurrent(s)

ConcSpec == Init /\ [][ConcNext]_vars

\* ------------------- like, unlike, retweet and unretweet, one store call at a time

\* The array of a tweet document an engagement route works on.
FieldOf(op) == IF op \in {"like", "unlike"} THEN "likes" ELSE "retweets"

Engaged(t, field) == IF field = "likes" THEN t.likes ELSE t.retweets

\* Mutant of SavePushed: the array as loaded, with the push, is written back whole.
SavePushedWhole(ts, id, field, loaded, x) ==
    IF field = "likes" THEN [ts EXCEPT ![id].likes = Push(loaded, x)]
    ELSE [ts EXCEPT ![id].retweets = Push(loaded, x)]

\* await tweet.save() after a push on the loaded array: the update sent is a
\* $push of the one element, applied to the array as it is stored.
SavePushed(ts, id, field, loaded, x) ==
    IF field = "likes" THEN SaveLike(ts, id, x) ELSE SaveRetweet(ts, id, x)

\* await tweet.save() after an assignment of the array: the update sent sets
\* the whole array.
SaveAssigned(ts, id, field, arr) ==
    IF field = "likes" THEN [ts EXCEPT ![id].likes = arr]
    ELSE [ts EXCEPT ![id].retweets = arr]

\* A request holds a loaded copy of tweet id that it has still to save.
HoldsTweet(r, id) ==
    /\ r.op \in {"like", "unlike", "retweet", "unretweet"}
    /\ r.pc \in {"pushTweet", "assignTweet"}
    /\ r.id = id

\* save() increments the version key of tweet id: the copies of it other
\* requests have loaded no longer carry the stored version.
OutdateTweet(rs, self, id) ==
    [s \in Slots |->
        IF s # self /\ HoldsTweet(rs[s], id) THEN [rs[s] EXCEPT !.fresh = FALSE]
        ELSE rs[s]]

\* Like and retweet requests in flight: each may have a notification to create.
PushesInFlight == Cardinality({s \in Slots : reqs[s].op \in {"like", "retweet"}})

\* like, retweet: const tweet = await Tweet.findById(req.params.id), the checks,
\* and the push on the loaded array.
ConcPushFind(s, op, actor, id) ==
    /\ FreeSlot(s)
    /\ Arrive
    /\ IF id \notin DOMAIN tweets
       THEN Answer(op, actor, id, 404, "Tweet not found")
       ELSE IF Includes(Engaged(tweets[id], FieldOf(op)), actor)
       THEN Answer(op, actor, id, 400,
                   IF op = "like" THEN "Tweet already liked"
                   ELSE "Tweet already retweeted")
       ELSE /\ nextNotif + PushesInFlight <= MaxNotifs
            /\ reqs' = [reqs EXCEPT ![s] =
                   [op |-> op, user |-> actor, id |-> id, pc |-> "pushTweet",
                    arr |-> Engaged(tweets[id], FieldOf(op)),
                    fresh |-> TRUE, modified |-> TRUE]]
            /\ UNCHANGED <<db, res, trip, storeError>>

\* like, retweet: await tweet.save(). A push needs no match of the version.
ConcPushSave(s, op) ==
    /\ reqs[s].op = op /\ reqs[s].pc = "pushTweet"
    /\ tweets' = SavePushed(tweets, reqs[s].id, FieldOf(op), reqs[s].arr, reqs[s].user)
    /\ reqs' = OutdateTweet([reqs EXCEPT ![s].pc = "notify"], s, reqs[s].id)
    /\ UNCHANGED <<users, nextTweet, notifications, nextNotif, res, served, trip,
                   storeError>>

\* like, retweet: await Notification.create({...}) unless the tweet is the
\* requester's own; res.json(...).
ConcPushNotify(s, op) ==
    /\ reqs[s].op = op /\ reqs[s].pc = "notify"
    /\ IF NotOwnTweet(tweets, reqs[s].id, reqs[s].user)
       THEN CreateNotification(tweets[reqs[s].id].user, reqs[s].user, op, reqs[s].id,
                               IF op = "like" THEN "liked your chirp"
                               ELSE "retweeted your chirp")
       ELSE UNCHANGED <<notifications, nextNotif>>
    /\ Finish(s, 200, IF op = "like" THEN "Tweet liked successfully"
                      ELSE "Tweet retweeted successfully")
    /\ reqs' = [reqs EXCEPT ![s] = Idle]
    /\ UNCHANGED <<users, tweets, nextTweet, served, trip>>

\* unlike, unretweet: const tweet = await Tweet.findById(req.params.id), the
\* checks, and the filter of the loaded array.
ConcFilterFind(s, op, actor, id) ==
    /\ FreeSlot(s)
    /\ Arrive
    /\ IF id \notin DOMAIN tweets
       THEN Answer(op, actor, id, 404, "Tweet not found")
       ELSE IF ~Includes(Engaged(tweets[id], FieldOf(op)), actor)
       THEN Answer(op, actor, id, 400,
                   IF op = "unlike" THEN "Tweet not liked" ELSE "Tweet not retweeted")
       ELSE /\ reqs' = [reqs EXCEPT ![s] =
                   [op |-> op, user |-> actor, id |-> id, pc |-> "assignTweet",
                    arr |-> FilterOut(Engaged(tweets[id], FieldOf(op)), actor),
                    fresh |-> TRUE, modified |-> TRUE]]
            /\ UNCHANGED <<db, res, trip, storeError>>

\* unlike, unretweet: await tweet.save(); res.json(...). The array was assigned,
\* so the update is conditional on the version loaded; a stale version throws
\* into the catch.
ConcFilterSave(s, op) ==
    /\ reqs[s].op = op /\ reqs[s].pc = "assignTweet"
    /\ IF ~reqs[s].fresh
       THEN /\ Finish(s, 500, "Server error")
            /\ reqs' = [reqs EXCEPT ![s] = Idle]
            /\ UNCHANGED tweets
       ELSE /\ tweets' = SaveAssigned(tweets, reqs[s].id, FieldOf(op), reqs[s].arr)
            /\ Finish(s, 200, IF op = "unlike" THEN "Tweet unliked successfully"
                              ELSE "Tweet unretweeted successfully")
            /\ reqs' = OutdateTweet([reqs EXCEPT ![s] = Idle], s, reqs[s].id)
    /\ UNCHANGED <<users, nextTweet, notifications, nextNotif, served, trip>>

\* The store after one user's top-level tweet.
EngageInit ==
    /\ users = InitUsers
    /\ tweets = (1 :> NewTweet("u1", <<"a">>, Null))
    /\ nextTweet = 2
    /\ notifications = <<>>
    /\ nextNotif = 1
    /\ res = NoResponse
    /\ served = 0
    /\ trip = NoTrip
    /\ reqs = [s \in Slots |-> Idle]
    /\ storeError = FALSE

\* Like, unlike, retweet and unretweet requests interleaved at their awaits.
EngageNext ==
    \/ \E s \in Slots, actor \in Users, id \in TweetIds : ConcPushFind(s, "like", actor, id)
    \/ \E s \in Slots : ConcPushSave(s, "like")
    \/ \E s \in Slots : ConcPushNotify(s, "like")
    \/ \E s \in Slots, actor \in Users, id \in TweetIds :
          ConcFilterFind(s, "unlike", actor, id)
    \/ \E s \in Slots : ConcFilterSave(s, "unlike")
    \/ \E s \in Slots, actor \in Users, id \in TweetIds :
          ConcPushFind(s, "retweet", actor, id)
    \/ \E s \in Slots : ConcPushSave(s, "retweet")
    \/ \E s \in Slots : ConcPushNotify(s, "retweet")
    \/ \E s \in Slots, actor \in Users, id \in TweetIds :
          ConcFilterFind(s, "unretweet", actor, id)
    \/ \E s \in Slots : ConcFilterSave(s, "unretweet")

EngageSpec == EngageInit /\ [][EngageNext]_vars

\* ------------------------------ create and delete tweet, one store call at a time

\* The contents of the create requests: none, and one that is accepted.
ReplyContents == {<<>>, <<"a">>}

\* Create requests in flight that have their reply notification still to create.
RepliesInFlight == Cardinality({s \in Slots : reqs[s].pc = "notifyReply"})

\* create: the checks of the content, new Tweet({...}), whose _id is assigned
\* here, and for a reply const originalTweet = await Tweet.findById(replyTo) and
\* its checks. The request keeps the document it built.
ConcCreateFind(s, actor, content, replyTo) ==
    /\ FreeSlot(s)
    /\ Arrive
    /\ IF ContentMissing(content)
       THEN Answer("createTweet", actor, replyTo, 400, "Tweet content is required")
       ELSE IF ContentTooLong(content)
       THEN Answer("createTweet", actor, replyTo, 400,
                   "Tweet cannot exceed 280 characters")
       ELSE IF replyTo # Null /\ replyTo \notin DOMAIN tweets
       THEN Answer("createTweet", actor, replyTo, 404, "Original tweet not found")
       ELSE /\ nextTweet <= MaxTweets
            /\ nextNotif + RepliesInFlight <= MaxNotifs
            /\ nextTweet' = nextTweet + 1
            /\ reqs' = [reqs EXCEPT ![s] =
                   [op |-> "createTweet", user |-> actor, id |-> replyTo,
                    pc |-> IF replyTo # Null /\ ReplyToOther(tweets, replyTo, actor)
                           THEN "notifyReply" ELSE "saveNew",
                    arr |-> <<[id |-> nextTweet,
                               recipient |-> IF replyTo # Null THEN tweets[replyTo].user
                                             ELSE NoUser,
                               doc |-> NewTweet(actor, content, replyTo)]>>,
                    fresh |-> TRUE, modified |-> TRUE]]
            /\ UNCHANGED <<users, tweets, notifications, nextNotif, res, trip,
                           storeError>>

\* create: await Notification.create({ recipient: originalTweet.user, ...,
\* tweet: newTweet._id }).
ConcCreateNotify(s) ==
    /\ reqs[s].pc = "notifyReply"
    /\ CreateNotification(reqs[s].arr[1].recipient, reqs[s].user, "reply",
                          reqs[s].arr[1].id, "replied to your chirp")
    /\ reqs' = [reqs EXCEPT ![s].pc = "saveNew"]
    /\ UNCHANGED <<users, tweets, nextTweet, res, served, trip, storeError>>

\* create: await newTweet.save(), the populates and res.status(201).json(...).
ConcCreateSave(s) ==
    /\ reqs[s].pc = "saveNew"
    /\ tweets' = (reqs[s].arr[1].id :> reqs[s].arr[1].doc) @@ tweets
    /\ Respond("createTweet", reqs[s].user, reqs[s].id, 201, "",
               <<[id |-> reqs[s].arr[1].id, content |-> reqs[s].arr[1].doc.content,
                  user |-> reqs[s].user, likeCount |-> 0, retweetCount |-> 0,
                  replyCount |-> 0, isLiked |-> FALSE, isRetweeted |-> FALSE]>>)
    /\ reqs' = [reqs EXCEPT ![s] = Idle]
    /\ UNCHANGED <<users, nextTweet, notifications, nextNotif, served, trip,
                   storeError>>

\* delete: const tweet = await Tweet.findById(req.params.id), and the checks.
ConcDeleteFind(s, actor, id) ==
    /\ FreeSlot(s)
    /\ Arrive
    /\ IF id \notin DOMAIN tweets
       THEN Answer("deleteTweet", actor, id, 404, "Tweet not found")
       ELSE IF NotOwner(tweets, id, actor)
       THEN Answer("deleteTweet", actor, id, 401, "User not authorized")
       ELSE /\ reqs' = [reqs EXCEPT ![s] =
                   [op |-> "deleteTweet", user |-> actor, id |-> id,
                    pc |-> "deleteOne", arr |-> <<>>, fresh |-> TRUE,
                    modified |-> FALSE]]
            /\ UNCHANGED <<db, res, trip, storeError>>

\* delete: await tweet.deleteOne().
ConcDeleteOne(s) ==
    /\ reqs[s].pc = "deleteOne"
    /\ tweets' = DeleteOne(tweets, reqs[s].id)
    /\ reqs' = [reqs EXCEPT ![s].pc = "deleteReplies"]
    /\ UNCHANGED <<users, nextTweet, notifications, nextNotif, res, served, trip,
                   storeError>>

\* delete: await Tweet.deleteMany({ replyTo: req.params.id }).
ConcDeleteReplies(s) ==
    /\ reqs[s].pc = "deleteReplies"
    /\ tweets' = DeleteReplies(tweets, reqs[s].id)
    /\ reqs' = [reqs EXCEPT ![s].pc = "deleteNotifications"]
    /\ UNCHANGED <<users, nextTweet, notifications, nextNotif, res, served, trip,
                   storeError>>

\* delete: await Notification.deleteMany({ tweet: req.params.id }); res.json(...).
ConcDeleteNotifications(s) ==
    /\ reqs[s].pc = "deleteNotifications"
    /\ notifications' = DeleteNotifications(notifications, reqs[s].id)
    /\ Finish(s, 200, "Tweet deleted successfully")
    /\ reqs' = [reqs EXCEPT ![s] = Idle]
    /\ UNCHANGED <<users, tweets, nextTweet, nextNotif, served, trip>>

\* Create and delete requests interleaved at their awaits, on the store after
\* one user's top-level tweet.
ReplyNext ==
    \/ \E s \in Slots, actor \in Users, content \in ReplyContents,
          replyTo \in {Null} \cup TweetIds : ConcCreateFind(s, actor, content, replyTo)
    \/ \E s \in Slots : ConcCreateNotify(s)
    \/ \E s \in Slots : ConcCreateSave(s)
    \/ \E s \in Slots, actor \in Users, id \in TweetIds : ConcDeleteFind(s, actor, id)
    \/ \E s \in Slots : ConcDeleteOne(s)
    \/ \E s \in Slots : ConcDeleteReplies(s)
    \/ \E s \in Slots : ConcDeleteNotifications(s)

ReplySpec == EngageInit /\ [][ReplyNext]_vars

\* ------------------------------------------------------------------ claims

\* C1: right after a successful follow(A,B) (A # B), A is in B.followers and B is
\* in A.following; right after a successful unfollow(A,B), A is not in
\* B.followers and B is not in A.following.
FollowUnfollowMirrored ==
    /\ (res.op = "follow" /\ res.status = 200) =>
          /\ res.user # res.id
          /\ Includes(users[res.id].followers, res.user)
          /\ Includes(users[res.user].following, res.id)
    /\ (res.op = "unfollow" /\ res.status = 200) =>
          /\ ~Includes(users[res.id].followers, res.user)
          /\ ~Includes(users[res.user].following, res.id)

\* C1 witness: an unfollow has succeeded, so a follow of the same pair had
\* succeeded before it.
UnfollowedAfterFollow ==
    /\ res.op = "unfollow" /\ res.status = 200
    /\ \E i \in 1..Len(notifications) :
          /\ notifications[i].type = "follow"
          /\ notifications[i].sender = res.user
          /\ notifications[i].recipient = res.id

\* The follow relation holds on both documents or on neither.
Mirror ==
    \A a \in Users, b \in Users :
        Includes(users[b].followers, a) <=> Includes(users[a].following, b)

\* No follow or unfollow request is in flight.
Quiescent == \A s \in Slots : reqs[s].pc = "idle"

\* C2: whenever no follow or unfollow request is in flight and none has ended
\* in a store error, A is in B.followers exactly when B is in A.following.
MirrorWhenQuiescent == (Quiescent /\ ~storeError) => Mirror

\* C3: follow(A,A) fails with the self-follow error, and follow(A,B) right after
\* a successful follow(A,B) fails with the already-following error; neither
\* changes a user's followers or following nor creates a notification.
RefusedFollow ==
    /\ res'.op = "follow" /\ res'.user = res'.id =>
          /\ res'.status = 400
          /\ res'.message = "You cannot follow yourself"
          /\ UNCHANGED <<users, notifications>>
    /\ ( /\ res.op = "follow" /\ res.status = 200
         /\ res'.op = "follow" /\ res'.user = res.user /\ res'.id = res.id ) =>
          /\ res'.status = 400
          /\ res'.message = "Already following this user"
          /\ UNCHANGED <<users, notifications>>

FollowRefusals == [][RefusedFollow]_vars

\* C3 witness: a follow was refused as a repeat, with the first follow's
\* notification stored.
RepeatedFollowRefused ==
    /\ res.op = "follow" /\ res.status = 400
    /\ res.message = "Already following this user"
    /\ Includes(users[res.id].followers, res.user)
    /\ Len(notifications) = 1

\* C4: no user is in their own stored followers or following.
NoSelfFollow ==
    \A u \in Users :
        ~Includes(users[u].followers, u) /\ ~Includes(users[u].following, u)

\* C4 witness: a timeline with tweets in it was served to a user who follows
\* someone.
TimelineOfFollower ==
    /\ res.op = "timeline"
    /\ users[res.user].following # <<>>
    /\ Len(res.body) > 0

\* The notifications whose related tweet is id.
NotificationsOf(ns, id) == {i \in 1..Len(ns) : ns[i].tweet = id}

\* C5: a successful deleteTweet of P leaves no tweet P, no tweet whose replyTo is
\* P and no notification whose tweet is P, and leaves every other tweet, the
\* replies to P's replies among them, stored as it was.
CascadedDelete ==
    (res'.op = "deleteTweet" /\ res'.status = 200) =>
        LET P == res'.id IN
        /\ P \notin DOMAIN tweets'
        /\ \A t \in DOMAIN tweets' : tweets'[t].replyTo # P
        /\ NotificationsOf(notifications', P) = {}
        /\ \A g \in DOMAIN tweets :
              (g # P /\ tweets[g].replyTo # P) =>
                  (g \in DOMAIN tweets' /\ tweets'[g] = tweets[g])

DeleteCascades == [][CascadedDelete]_vars

\* C5 witness: a delete has succeeded and removed a reply with the tweet, and a
\* reply to that reply is still stored.
DeletedWithOrphan ==
    /\ res.op = "deleteTweet" /\ res.status = 200
    /\ \E g \in DOMAIN tweets :
          /\ tweets[g].replyTo # Null
          /\ tweets[g].replyTo \notin DOMAIN tweets
          /\ tweets[g].replyTo # res.id

\* C6: deleteTweet of a tweet that is not stored is refused with 404, and of a
\* tweet of another author with 401; both leave the tweets and the
\* notifications as they were.
RefusedDelete ==
    res'.op = "deleteTweet" =>
        LET P == res'.id IN
        /\ P \notin DOMAIN tweets =>
              /\ res'.status = 404
              /\ UNCHANGED <<tweets, notifications>>
        /\ (P \in DOMAIN tweets /\ tweets[P].user # res'.user) =>
              /\ res'.status = 401
              /\ UNCHANGED <<tweets, notifications>>

DeleteRefusals == [][RefusedDelete]_vars

\* C6 witness: a delete by another user was refused while the tweet has a
\* notification.
DeleteByOtherRefused ==
    /\ res.op = "deleteTweet" /\ res.status = 401
    /\ res.id \in DOMAIN tweets
    /\ NotificationsOf(notifications, res.id) # {}

\* C7: after a successful like(U,P) by a user not in P.likes and then a
\* successful unlike(U,P), P.likes is what it was before the like, and so is
\* P.retweets.
LikeUnlikeRoundTrip ==
    trip.stage = "unliked" =>
        /\ trip.tweet \in DOMAIN tweets
        /\ tweets[trip.tweet].likes = trip.likes
        /\ tweets[trip.tweet].retweets = trip.retweets

\* C7 witness: the round trip was made on a tweet that another user likes.
RoundTripMade ==
    /\ trip.stage = "unliked"
    /\ trip.likes # <<>>
    /\ ~Includes(trip.likes, trip.user)

\* C8: like of a tweet that is not stored is refused with 404 and of a tweet the
\* user likes with 400 (already liked); unlike of a tweet that is not stored is
\* refused with 404 and of a tweet the user does not like with 400 (not liked);
\* each leaves the tweets and the notifications as they were.
RefusedLike ==
    /\ res'.op = "like" =>
          LET P == res'.id IN
          /\ P \notin DOMAIN tweets =>
                /\ res'.status = 404 /\ res'.message = "Tweet not found"
                /\ UNCHANGED <<tweets, notifications>>
          /\ (P \in DOMAIN tweets /\ Includes(tweets[P].likes, res'.user)) =>
                /\ res'.status = 400 /\ res'.message = "Tweet already liked"
                /\ UNCHANGED <<tweets, notifications>>
    /\ res'.op = "unlike" =>
          LET P == res'.id IN
          /\ P \notin DOMAIN tweets =>
                /\ res'.status = 404 /\ res'.message = "Tweet not found"
                /\ UNCHANGED <<tweets, notifications>>
          /\ (P \in DOMAIN tweets /\ ~Includes(tweets[P].likes, res'.user)) =>
                /\ res'.status = 400 /\ res'.message = "Tweet not liked"
                /\ UNCHANGED <<tweets, notifications>>

LikeRefusals == [][RefusedLike]_vars

\* C8 witness: a like was refused as a repeat, with the first like's
\* notification stored.
RepeatedLikeRefused ==
    /\ res.op = "like" /\ res.status = 400
    /\ res.id \in DOMAIN tweets
    /\ Includes(tweets[res.id].likes, res.user)
    /\ NotificationsOf(notifications, res.id) # {}

\* C9: a successful like of one's own tweet creates no notification; a
\* successful like of another user's tweet creates exactly one, of type like,
\* from the liker to the author, about the tweet, unread.
NotifiedLike ==
    (res'.op = "like" /\ res'.status = 200) =>
        LET P == res'.id
            U == res'.user
        IN  IF tweets[P].user = U
            THEN notifications' = notifications
            ELSE /\ Len(notifications') = Len(notifications) + 1
                 /\ SubSeq(notifications', 1, Len(notifications)) = notifications
                 /\ LET n == notifications'[Len(notifications')] IN
                    /\ n.type = "like"
                    /\ n.sender = U
                    /\ n.recipient = tweets[P].user
                    /\ n.tweet = P
                    /\ n.read = FALSE

LikeNotifies == [][NotifiedLike]_vars

\* C9 witness: a like of another user's tweet has succeeded and its notification
\* is the last one stored.
LikeOfOtherNotified ==
    /\ res.op = "like" /\ res.status = 200
    /\ res.id \in DOMAIN tweets
    /\ tweets[res.id].user # res.user
    /\ notifications # <<>>
    /\ notifications[Len(notifications)].type = "like"

\* C10: no stored notification has its sender as its recipient.
SenderIsNotRecipient ==
    \A i \in 1..Len(notifications) :
        notifications[i].sender # notifications[i].recipient

\* C10 witness: a reply to one's own tweet is stored beside notifications of two
\* kinds.
NotifiedBesideOwnReply ==
    /\ \E t \in DOMAIN tweets :
          /\ tweets[t].replyTo \in DOMAIN tweets
          /\ tweets[tweets[t].replyTo].user = tweets[t].user
    /\ \E i, j \in 1..Len(notifications) :
          notifications[i].type # notifications[j].type

\* C11: a retweet of a missing tweet is refused with 404 and one of a tweet the
\* requester has retweeted with 400, an unretweet of a missing tweet with 404 and
\* one of a tweet the requester has not retweeted with 400, each leaving the
\* store as it was; any other retweet appends the requester to the tweet's
\* retweets and any other unretweet removes them, leaving every other field of
\* every tweet, the likes included, as it was; a retweet of another user's tweet
\* adds one unread "retweet" notification from the requester to the author, a
\* retweet of one's own tweet and an unretweet add none; like and unlike leave
\* every tweet's retweets as they were.
RetweetedAsLiked ==
    LET P == res'.id
        U == res'.user
        Has == P \in DOMAIN tweets /\ \E i \in 1..Len(tweets[P].retweets) :
                                          tweets[P].retweets[i] = U
    IN
    /\ (res'.op = "retweet") =>
          IF P \notin DOMAIN tweets
          THEN res'.status = 404 /\ db' = db
          ELSE IF Has
          THEN res'.status = 400 /\ db' = db
          ELSE /\ res'.status = 200
               /\ tweets' = [tweets EXCEPT ![P].retweets = Append(@, U)]
               /\ users' = users
               /\ IF tweets[P].user = U
                  THEN notifications' = notifications
                  ELSE /\ Len(notifications') = Len(notifications) + 1
                       /\ SubSeq(notifications', 1, Len(notifications)) = notifications
                       /\ LET n == notifications'[Len(notifications')] IN
                          /\ n.type = "retweet"
                          /\ n.sender = U
                          /\ n.recipient = tweets[P].user
                          /\ n.tweet = P
                          /\ n.read = FALSE
    /\ (res'.op = "unretweet") =>
          IF P \notin DOMAIN tweets
          THEN res'.status = 404 /\ db' = db
          ELSE IF ~Has
          THEN res'.status = 400 /\ db' = db
          ELSE /\ res'.status = 200
               /\ tweets' = [tweets EXCEPT
                                ![P].retweets = SelectSeq(@, LAMBDA e : e # U)]
               /\ users' = users
               /\ notifications' = notifications
    /\ (res'.op \in {"like", "unlike"}) =>
          /\ DOMAIN tweets' = DOMAIN tweets
          /\ \A t \in DOMAIN tweets : tweets'[t].retweets = tweets[t].retweets

RetweetsMirrorLikes == [][RetweetedAsLiked]_vars

\* C11 witness: a retweet of another user's tweet that carries a like has
\* succeeded and its notification is the last one stored.
RetweetOfLikedNotified ==
    /\ res.op = "retweet" /\ res.status = 200
    /\ res.id \in DOMAIN tweets
    /\ tweets[res.id].user # res.user
    /\ tweets[res.id].likes # <<>>
    /\ notifications # <<>>
    /\ notifications[Len(notifications)].type = "retweet"

\* C12 (as the code has it): a create request is refused with 400, leaving the
\* store as it was, exactly when its content has no character other than
\* blanks or has more than 280 characters, blanks at its ends included; any
\* other content is accepted and stored as it was sent, in a new tweet when the
\* request names no parent or a stored one.
AcceptedContent ==
    (res'.op = "createTweet") =>
        \A content \in Contents :
            CreateRequest(res'.user, content, res'.id) =>
                IF /\ \E i \in 1..Len(content) : content[i] # " "
                   /\ Len(content) <= 280
                THEN /\ res'.status # 400
                     /\ (res'.id = Null \/ res'.id \in DOMAIN tweets) =>
                           /\ res'.status = 201
                           /\ DOMAIN tweets' = DOMAIN tweets \cup {nextTweet}
                           /\ tweets'[nextTweet].content = content
                ELSE /\ res'.status = 400
                     /\ db' = db

ContentAcceptedByLength == [][AcceptedContent]_vars

\* C12 as stated: a create request is refused for its content exactly when the
\* content, with the blanks at its ends removed, has no character or more than
\* 280.
AcceptedTrimmedContent ==
    (res'.op = "createTweet") =>
        \A content \in Contents :
            CreateRequest(res'.user, content, res'.id) =>
                (res'.status # 400 <=> Len(Trim(content)) \in 1..280)

ContentAcceptedByTrimmedLength == [][AcceptedTrimmedContent]_vars

\* C12 witness: a request whose content is a blank before 280 characters has
\* been refused, and a tweet of 280 characters is stored.
PaddedContentRefused ==
    /\ res.op = "createTweet" /\ res.status = 400
    /\ res.message = "Tweet cannot exceed 280 characters"
    /\ \E t \in DOMAIN tweets : Len(tweets[t].content) = 280

\* C13: a create request with 281 non-blank characters is refused and stores no
\* tweet; one with exactly 280, naming no parent or a stored one, is answered
\* 201 and stores one new tweet by the requester with no likes and no retweets,
\* the counters in the response being zero.
LengthBoundary ==
    (res'.op = "createTweet") =>
        /\ CreateRequest(res'.user, Rep("a", 281), res'.id) =>
              /\ res'.status = 400
              /\ tweets' = tweets
              /\ notifications' = notifications
        /\ ( /\ CreateRequest(res'.user, Rep("a", 280), res'.id)
             /\ (res'.id = Null \/ res'.id \in DOMAIN tweets) ) =>
              /\ res'.status = 201
              /\ DOMAIN tweets' = DOMAIN tweets \cup {nextTweet}
              /\ nextTweet \notin DOMAIN tweets
              /\ \A t \in DOMAIN tweets : tweets'[t] = tweets[t]
              /\ tweets'[nextTweet].user = res'.user
              /\ Len(tweets'[nextTweet].content) = 280
              /\ tweets'[nextTweet].likes = <<>>
              /\ tweets'[nextTweet].retweets = <<>>
              /\ Len(res'.body) = 1
              /\ res'.body[1].id = nextTweet
              /\ res'.body[1].likeCount = 0
              /\ res'.body[1].retweetCount = 0

ContentLengthBoundary == [][LengthBoundary]_vars

\* C13 witness: the last request created a tweet of exactly 280 characters,
\* stored with no likes and no retweets.
TweetAtLimitCreated ==
    /\ res.op = "createTweet" /\ res.status = 201
    /\ Len(res.body) = 1
    /\ res.body[1].id \in DOMAIN tweets
    /\ Len(tweets[res.body[1].id].content) = 280
    /\ tweets[res.body[1].id].likes = <<>>
    /\ tweets[res.body[1].id].retweets = <<>>

\* C14: a create request with acceptable content whose replyTo names no stored
\* tweet is answered 404 and leaves tweets and notifications as they were; a
\* created reply to another user's tweet adds exactly one unread "reply"
\* notification, from the requester to the parent's author and naming the new
\* tweet; a created reply to one's own tweet adds none.
ReplyNotified ==
    (res'.op = "createTweet" /\ res'.id # Null) =>
        LET P == res'.id
            U == res'.user
        IN  /\ (P \notin DOMAIN tweets /\ res'.status # 400) =>
                  /\ res'.status = 404
                  /\ tweets' = tweets
                  /\ notifications' = notifications
            /\ (res'.status = 404) => P \notin DOMAIN tweets
            /\ (res'.status = 201) =>
                  /\ P \in DOMAIN tweets
                  /\ DOMAIN tweets' = DOMAIN tweets \cup {nextTweet}
                  /\ tweets'[nextTweet].replyTo = P
                  /\ IF tweets[P].user = U
                     THEN notifications' = notifications
                     ELSE /\ Len(notifications') = Len(notifications) + 1
                          /\ SubSeq(notifications', 1, Len(notifications)) = notifications
                          /\ LET n == notifications'[Len(notifications')] IN
                             /\ n.type = "reply"
                             /\ n.recipient = tweets[P].user
                             /\ n.sender = U
                             /\ n.tweet = nextTweet
                             /\ n.read = FALSE

RepliesNotified == [][ReplyNotified]_vars

\* C14 witness: a reply to another user's tweet has been created and its
\* notification, naming the reply, is the last one stored.
ReplyToOtherNotified ==
    /\ res.op = "createTweet" /\ res.status = 201 /\ res.id # Null
    /\ res.id \in DOMAIN tweets
    /\ tweets[res.id].user # res.user
    /\ notifications # <<>>
    /\ notifications[Len(notifications)].type = "reply"
    /\ notifications[Len(notifications)].tweet = res.body[1].id
    /\ notifications[Len(notifications)].recipient = tweets[res.id].user

\* The ids of a listing's entries, in the order of the listing.
ListedIds == [i \in 1..Len(res.body) |-> res.body[i].id]

\* A listing of the tweets of a set, newest first and cut to a page: every
\* entry is of the set, the entries go from newer to older, there are as many
\* as the set has or as the page holds, and any tweet of the set left out is
\* older than every entry.
NewestOf(wanted, limit) ==
    /\ \A i \in 1..Len(ListedIds) : ListedIds[i] \in wanted
    /\ \A i, j \in 1..Len(ListedIds) : i < j => ListedIds[i] > ListedIds[j]
    /\ Len(ListedIds) = IF Cardinality(wanted) <= limit THEN Cardinality(wanted)
                        ELSE limit
    /\ \A t \in wanted :
          (\A i \in 1..Len(ListedIds) : ListedIds[i] # t) =>
              \A i \in 1..Len(ListedIds) : ListedIds[i] > t

\* C15: the timeline a user is given lists exactly the stored tweets that are
\* not replies and whose author is the user or someone the user now follows,
\* newest first, cut to the 50 newest.
TimelineExact ==
    (res.op = "timeline" /\ res.status = 200) =>
        LET U == res.user IN
        NewestOf({t \in DOMAIN tweets :
                     /\ tweets[t].replyTo = Null
                     /\ \/ tweets[t].user = U
                        \/ \E i \in 1..Len(users[U].following) :
                              users[U].following[i] = tweets[t].user},
                 50)

\* C15 witness: a user who follows another has been given a timeline of 50
\* entries while the two have more than 50 top-level tweets, a reply is stored,
\* and the oldest top-level tweet is not listed.
TimelineCut ==
    /\ res.op = "timeline" /\ res.status = 200
    /\ users[res.user].following # <<>>
    /\ Len(res.body) = 50
    /\ Cardinality({t \in DOMAIN tweets : tweets[t].replyTo = Null}) > 50
    /\ \E t \in DOMAIN tweets : tweets[t].replyTo # Null
    /\ \A i \in 1..Len(res.body) : res.body[i].id # 1

\* C16: explore lists exactly the stored tweets that are not replies, of every
\* author, newest first, cut to the 50 newest; no reply is listed.
ExploreExact ==
    (res.op = "explore" /\ res.status = 200) =>
        /\ NewestOf({t \in DOMAIN tweets : tweets[t].replyTo = Null}, 50)
        /\ \A i \in 1..Len(res.body) : tweets[res.body[i].id].replyTo = Null

\* C16 witness: explore has answered with 50 entries of both authors while the
\* store holds more than 50 top-level tweets and a reply.
ExploreCut ==
    /\ res.op = "explore" /\ res.status = 200
    /\ Len(res.body) = 50
    /\ Cardinality({t \in DOMAIN tweets : tweets[t].replyTo = Null}) > 50
    /\ \E t \in DOMAIN tweets : tweets[t].replyTo # Null
    /\ \E i, j \in 1..Len(res.body) : res.body[i].user # res.body[j].user

\* C17: in every answer of timeline, explore, replies and search, each entry's
\* isLiked tells whether the user whose token the request bears is in the
\* tweet's likes, and its isRetweeted whether that user is in its retweets;
\* both are false for a request bearing no user's token.
ViewerFlags ==
    (res.op \in {"timeline", "explore", "replies", "search"} /\ res.status = 200) =>
        \A i \in 1..Len(res.body) :
            LET e == res.body[i]
                V == res.user
            IN  /\ e.isLiked <=>
                      /\ V # NoUser
                      /\ \E k \in 1..Len(tweets[e.id].likes) : tweets[e.id].likes[k] = V
                /\ e.isRetweeted <=>
                      /\ V # NoUser
                      /\ \E k \in 1..Len(tweets[e.id].retweets) :
                            tweets[e.id].retweets[k] = V

\* C18: in every answer of timeline, explore, search, replies and the read of
\* one tweet, each entry's replyCount is the number of stored tweets whose
\* replyTo is the entry's tweet, its likeCount the number of users in the
\* tweet's likes and its retweetCount the number of users in its retweets.
CountsExact ==
    ( /\ res.op \in {"timeline", "explore", "search", "replies", "getTweet"}
      /\ res.status = 200 ) =>
        \A i \in 1..Len(res.body) :
            LET e == res.body[i]
                T == tweets[e.id]
            IN  /\ e.replyCount =
                      Cardinality({t \in DOMAIN tweets : tweets[t].replyTo = e.id})
                /\ e.likeCount = Cardinality({T.likes[k] : k \in 1..Len(T.likes)})
                /\ e.retweetCount =
                      Cardinality({T.retweets[k] : k \in 1..Len(T.retweets)})

\* C18 witness: one tweet has been read that has a reply and a like, and is
\* reported with one of each.
RepliedAndLikedRead ==
    /\ res.op = "getTweet" /\ res.status = 200
    /\ res.body[1].replyCount = 1
    /\ res.body[1].likeCount = 1
    /\ tweets[res.id].likes # <<>>
    /\ \E t \in DOMAIN tweets : tweets[t].replyTo = res.id

\* C19: marking a notification that is not stored is refused with 404 and
\* marking one addressed to another user with 401, each leaving the store as it
\* was; any other marking sets the read flag of that notification and nothing
\* else; marking all is answered 200 and sets the read flag of every
\* notification addressed to the requester and nothing else; neither changes
\* any field of a notification addressed to another user.
MarkedRead ==
    LET U == res'.user
        Same == /\ Len(notifications') = Len(notifications)
                /\ users' = users /\ tweets' = tweets
                /\ \A i \in 1..Len(notifications) :
                      /\ notifications[i].recipient # U =>
                            notifications'[i] = notifications[i]
                      /\ notifications'[i] = [notifications[i] EXCEPT !.read = TRUE]
                         \/ notifications'[i] = notifications[i]
    IN
    /\ (res'.op = "markRead") =>
          LET N == res'.id
              At == {i \in 1..Len(notifications) : notifications[i].id = N}
          IN  /\ Same
              /\ IF At = {}
                 THEN res'.status = 404 /\ notifications' = notifications
                 ELSE IF \E i \in At : notifications[i].recipient # U
                 THEN res'.status = 401 /\ notifications' = notifications
                 ELSE /\ res'.status = 200
                      /\ \A i \in 1..Len(notifications) :
                            IF i \in At THEN notifications'[i].read = TRUE
                            ELSE notifications'[i] = notifications[i]
    /\ (res'.op = "markAllRead") =>
          /\ Same
          /\ res'.status = 200
          /\ \A i \in 1..Len(notifications) :
                IF notifications[i].recipient = U THEN notifications'[i].read = TRUE
                ELSE notifications'[i] = notifications[i]

MarkingReads == [][MarkedRead]_vars

\* C19 witness: a user has marked all read; a notification addressed to that
\* user is read and one addressed to the other user is still unread.
OthersLeftUnread ==
    /\ res.op = "markAllRead" /\ res.status = 200
    /\ \E i, j \in 1..Len(notifications) :
          /\ notifications[i].recipient = res.user /\ notifications[i].read = TRUE
          /\ notifications[j].recipient # res.user /\ notifications[j].read = FALSE

\* C20: a request to a protected action that bears no token, a token that does
\* not verify, or a token naming no stored user is answered 401 and leaves
\* users, tweets and notifications as they were.
RejectedUnauthenticated ==
    (res'.user = NoUser) =>
        \A cred \in Credentials \ Users, op \in ProtectedOps :
            \A arg \in Args(op) :
                AuthServe(Request(cred, op, arg)) =>
                    /\ res'.status = 401
                    /\ db' = db

UnauthenticatedRejected == [][RejectedUnauthenticated]_vars


\* A step takes user u out of the array of tweet id that the route op fills.
Dropped(op, id, u) ==
    /\ Includes(Engaged(tweets[id], FieldOf(op)), u)
    /\ ~Includes(Engaged(tweets'[id], FieldOf(op)), u)

\* A step is the save of a request of user u that filters tweet id's array.
FilterSaved(op, id, u) ==
    \E s \in Slots :
        /\ reqs[s].op = op /\ reqs[s].pc = "assignTweet"
        /\ reqs[s].user = u /\ reqs[s].id = id
        /\ reqs'[s] = Idle /\ res'.status = 200

\* C21: a like or retweet request that found the tweet without its user saves,
\* leaves its user in the stored array and answers 200, whatever other requests
\* do between its awaits; and a user leaves a tweet's likes (retweets) only by
\* the save of that user's own unlike (unretweet) on that tweet.
EngagementKept ==
    [][/\ \A s \in Slots :
            reqs[s].pc = "pushTweet" =>
                \/ reqs'[s] = reqs[s]
                \/ reqs'[s] = [reqs[s] EXCEPT !.fresh = FALSE]
                \/ /\ reqs'[s].pc = "notify"
                   /\ Includes(Engaged(tweets'[reqs[s].id], FieldOf(reqs[s].op)),
                               reqs[s].user)
       /\ \A s \in Slots :
            (reqs[s].pc = "notify" /\ reqs'[s].pc # "notify") =>
                /\ res'.status = 200
                /\ res'.user = reqs[s].user
                /\ res'.op = reqs[s].op
       /\ \A id \in DOMAIN tweets, u \in Users :
            /\ Dropped("like", id, u) => FilterSaved("unlike", id, u)
            /\ Dropped("retweet", id, u) => FilterSaved("unretweet", id, u)]_vars

\* C21 witness: two users' like requests both loaded tweet 1 with no likes,
\* both have saved, and the stored likes hold both users.
BothLikesStored ==
    \E s, t \in Slots :
        /\ reqs[s].op = "like" /\ reqs[t].op = "like"
        /\ reqs[s].user = "u1" /\ reqs[t].user = "u2"
        /\ reqs[s].pc = "notify" /\ reqs[t].pc = "notify"
        /\ reqs[s].arr = <<>> /\ reqs[t].arr = <<>>
        /\ Includes(tweets[1].likes, "u1") /\ Includes(tweets[1].likes, "u2")


\* The number of positions of arr that hold x.
Occurrences(arr, x) == Cardinality({i \in 1..Len(arr) : arr[i] = x})

\* C22: in every state, also while and after requests of one user on one tweet
\* run concurrently, a user id occurs at most once in a tweet's likes and at
\* most once in its retweets.
EngagementsAreSets ==
    \A id \in DOMAIN tweets, u \in Users :
        /\ Occurrences(tweets[id].likes, u) <= 1
        /\ Occurrences(tweets[id].retweets, u) <= 1


\* The users a suggestions request of user u may be answered with.
Suggestible(u) ==
    {v \in DOMAIN users : v # u /\ ~Includes(users[u].following, v)}

\* C23: a suggestions request that bears the token of a stored user U is
\* answered 200 with at most five users, each a stored user other than U whom U
\* does not follow, and with at least one when there is such a user.
SuggestionsAnswered ==
    (res'.op \in {"profile", "suggestions"} /\ res'.user \in Users) =>
        \A cred \in Users, arg \in Args("suggestions") :
            AuthServe(Request(cred, "suggestions", arg)) =>
                /\ res'.status = 200
                /\ Len(res'.body) <= SuggestionsLimit
                /\ \A i \in 1..Len(res'.body) : res'.body[i].id \in Suggestible(cred)
                /\ Suggestible(cred) # {} => Len(res'.body) > 0

SuggestionsServed == [][SuggestionsAnswered]_vars


\* C24: once a delete of tweet P has answered 200 and no request is in flight,
\* whatever create requests ran between its awaits, no stored tweet has P as its
\* replyTo.
NoReplyToDeleted ==
    (Quiescent /\ res.op = "deleteTweet" /\ res.status = 200) =>
        \A t \in DOMAIN tweets : tweets[t].replyTo # res.id


\* C25: whenever no request is in flight, every stored notification that names
\* a tweet names one that is stored.
NotificationsNameStoredTweets ==
    Quiescent =>
        \A i \in 1..Len(notifications) :
            notifications[i].tweet # Null => notifications[i].tweet \in DOMAIN tweets


\* What a step does to the notification with id nid, when it is stored before
\* or after the step.
NotificationStep(nid) ==
    LET i == FindNotification(notifications, nid)
        j == FindNotification(notifications', nid)
    IN  /\ (i # 0 /\ j # 0) =>
            /\ notifications'[j] = [notifications[i] EXCEPT !.read = notifications'[j].read]
            /\ notifications[i].read => notifications'[j].read
        /\ (i = 0 /\ j # 0) => notifications'[j].read = FALSE
        /\ (i # 0 /\ j = 0) =>
            /\ res'.op = "deleteTweet" /\ res'.status = 200
            /\ notifications[i].tweet = res'.id

\* C26: a notification is stored with read false; no request changes its
\* recipient, sender, type, tweet or message, or sets its read flag back to
\* false; and a notification leaves the store only in a successful delete of
\* the tweet it names.
NotificationsKeep == [][\A nid \in NotifIds : NotificationStep(nid)]_vars

\* C26 witness: a notification that was marked read is still stored and read
\* after a later request that stored another notification, which is unread.
ReadKeptBesideNew ==
    /\ Len(notifications) >= 2
    /\ notifications[1].read /\ ~notifications[2].read
    /\ res.op \notin {"markRead", "markAllRead"}
    /\ res.status \in {200, 201}

====
